---- MODULE Spec2Model ----
(***************************************************************************)
(* Model of src/main.rs of the audio analyzer: the main thread (start-up   *)
(* and the egui update loop), the capture thread (start_audio_stream's     *)
(* spawned closure running run_stream), the cpal data callback with its    *)
(* frame accumulator and FFT, and the Mutex<AudioData> they share.         *)
(*                                                                         *)
(* f32 values are modelled in fixed point, in thousandths (Scale), with    *)
(* NegInf standing for f32::NEG_INFINITY.  The analysis window FFT_SIZE    *)
(* is scaled down from 1024 so that the windows can be enumerated.         *)
(***************************************************************************)
EXTENDS Integers, Sequences, FiniteSets, TLC

\* ------------------------------------------------------------------ bounds
\* const FFT_SIZE: usize = 1024, scaled down.
FFT_SIZE == 4

\* Number of complete windows the capture may deliver in one run.
MaxWindows == 2

\* Total number of samples the callback stores in one run.
MaxSamples == MaxWindows * FFT_SIZE + 1

\* ------------------------------------------------------- f32 in fixed point
\* One unit of f32 (1.0) in the fixed-point representation.
Scale == 1000

\* f32::NEG_INFINITY, the value of 0f32.log10().
NegInf == -2147483647

\* pi in fixed point, used for the FFT twiddle factors.
Pi == 3142

\* The f32 sample values the device may deliver (0.0 and 1.0).
Samples == {0, Scale}

\* vec![0.0; n]
Zeros(n) == [i \in 1..n |-> 0]

\* ------------------------------------------------------------ FFT (rustfft)
RECURSIVE TaylorSum(_, _, _, _)
\* Alternating Taylor series sum  term - term*a^2/((j+1)(j+2)) + ...
TaylorSum(term, a2, j, sign) ==
    IF term = 0 \/ j > 24 THEN 0
    ELSE sign * term
         + TaylorSum((term * a2) \div (Scale * (j + 1) * (j + 2)), a2, j + 2, -sign)

\* cos and sin of an angle a in 0..Pi (fixed point radians).
CosFix(a) == TaylorSum(Scale, (a * a) \div Scale, 0, 1)
SinFix(a) == TaylorSum(a, (a * a) \div Scale, 1, 1)

\* Angle of r/n of a full turn, r <= n/2.
Angle(r, n) == (2 * Pi * r) \div n

\* cos(2 pi m / n) and sin(2 pi m / n); exact at the quarter turns.
CosTurn(m, n) ==
    LET r == m % n IN
    IF (4 * r) % n = 0
    THEN LET q == (4 * r) \div n IN
         IF q = 0 THEN Scale ELSE IF q = 2 THEN -Scale ELSE 0
    ELSE IF 2 * r < n THEN CosFix(Angle(r, n)) ELSE CosFix(Angle(n - r, n))

SinTurn(m, n) ==
    LET r == m % n IN
    IF (4 * r) % n = 0
    THEN LET q == (4 * r) \div n IN
         IF q = 1 THEN Scale ELSE IF q = 3 THEN -Scale ELSE 0
    ELSE IF 2 * r < n THEN SinFix(Angle(r, n)) ELSE -SinFix(Angle(n - r, n))

RECURSIVE SumRe(_, _, _)
\* Real part of bin k over samples 1..n of w (Complex32::new(x, 0.0) inputs).
SumRe(w, k, n) ==
    IF n = 0 THEN 0
    ELSE SumRe(w, k, n - 1) + (w[n] * CosTurn(k * (n - 1), Len(w))) \div Scale

RECURSIVE SumIm(_, _, _)
\* Imaginary part of bin k (forward transform: minus sine).
SumIm(w, k, n) ==
    IF n = 0 THEN 0
    ELSE SumIm(w, k, n - 1) - (w[n] * SinTurn(k * (n - 1), Len(w))) \div Scale

\* fft.process(&mut input): bin k (0-based) of the forward DFT of window w.
FftBin(w, k) == [re |-> SumRe(w, k, Len(w)), im |-> SumIm(w, k, Len(w))]

RECURSIVE SqrtSearch(_, _, _)
\* Largest r in lo..hi with r*r <= x.
SqrtSearch(x, lo, hi) ==
    IF lo >= hi THEN lo
    ELSE LET mid == (lo + hi + 1) \div 2 IN
         IF mid * mid <= x THEN SqrtSearch(x, mid, hi) ELSE SqrtSearch(x, lo, mid - 1)

\* Complex32::norm(): sqrt(re^2 + im^2).
Norm(c) == SqrtSearch(c.re * c.re + c.im * c.im, 0, 46340)

\* 10^(j/10) for j = 1..9, the steps of the logarithm below.
LogSteps == <<1259, 1585, 1995, 2512, 3162, 3981, 5012, 6310, 7943>>

RECURSIVE Log10Pos(_)
\* log10 of a positive value, rounded down to a tenth.
Log10Pos(x) ==
    IF x >= 10 * Scale THEN Log10Pos(x \div 10) + Scale
    ELSE IF x < Scale THEN Log10Pos(x * 10) - Scale
    ELSE (Scale \div 10) * Cardinality({j \in 1..9 : x >= LogSteps[j]})

\* f32::log10(): negative infinity at 0.
Log10(x) == IF x = 0 THEN NegInf ELSE Log10Pos(x)

\* f32 addition and multiplication by a positive constant, with -inf absorbing.
FAdd(x, c) == IF x = NegInf THEN NegInf ELSE x + c
FMul(x, c) == IF x = NegInf THEN NegInf ELSE x * c

\* (input[i].norm().log10() + 1.0) * 10.0
ScaledMagnitude(c) == FMul(FAdd(Log10(Norm(c)), Scale), 10)

\* The spectrum the callback computes for a complete window.
SpectrumOf(w) == [i \in 1..(FFT_SIZE \div 2) |-> ScaledMagnitude(FftBin(w, i - 1))]


\* -------------------------------------------------------------------- state
VARIABLES
    device,        \* what the host reports: "none" or the default format
    configOk,      \* whether the device reports a default input config
    mainPc,        \* position of the main thread
    mainPanic,     \* panic message of the main thread
    sampleFormat,  \* config.sample_format()
    threadPc,      \* position of the spawned capture thread
    threadPanic,   \* panic message of the capture thread
    typeParam,     \* the T of the run_stream::<T> call selected by the match
    streamType,    \* sample type of the slice the data callback takes
    stream,        \* the cpal stream: "none", "built", "playing", "closed"
    buffer,        \* run_stream's buffer
    index,         \* run_stream's index (the write cursor)
    spectrum,      \* the callback's local spectrum vector
    cbPc,          \* position of the data callback
    lock,          \* holder of the Mutex<AudioData>
    poisoned,      \* the mutex was poisoned by a panicking holder
    shared,        \* the AudioData inside the mutex
    uiPc,          \* position of AudioApp::update
    points,        \* the point vectors update has collected so far
    pushed,        \* history: number of samples stored so far
    publishes,     \* history: number of completed publishes
    stamp,         \* history: which publish wrote each field of shared
    seen,          \* history: the stamps of the fields update has read
    errorReported, \* history: the error callback has run
    streamWindow   \* history: the samples delivered since the last multiple of N

vars == <<device, configOk, mainPc, mainPanic, sampleFormat, threadPc,
          threadPanic, typeParam, streamType, stream, buffer, index, spectrum,
          cbPc, lock, poisoned, shared, uiPc, points, pushed,
          publishes, stamp, seen, errorReported, streamWindow>>

mainVars == <<mainPc, mainPanic, sampleFormat>>
threadVars == <<threadPc, threadPanic, typeParam, streamType, stream>>
cbVars == <<buffer, index, spectrum, cbPc>>
uiVars == <<uiPc, points, seen>>
envVars == <<device, configOk>>
histVars == <<pushed, publishes, stamp, errorReported, streamWindow>>

\* cpal::SampleFormat values a device may report; F64 stands for the formats
\* the match does not list.
Formats == {"F32", "I16", "U16", "F64"}

\* AudioData::new() with the spectrum as long as the waveform.
NewAudioData_FullSpectrum == [waveform |-> Zeros(FFT_SIZE), spectrum |-> Zeros(FFT_SIZE)]

\* AudioData::new()
NewAudioData == [waveform |-> Zeros(FFT_SIZE), spectrum |-> Zeros(FFT_SIZE \div 2)]

\* The process is alive while main has neither panicked nor returned.
Alive == mainPc \notin {"panicked", "exited"}

Init ==
    /\ device \in {"none"} \cup Formats
    /\ configOk \in BOOLEAN
    /\ mainPc = "start"
    /\ mainPanic = ""
    /\ sampleFormat = ""
    /\ threadPc = "none"
    /\ threadPanic = ""
    /\ typeParam = ""
    /\ streamType = ""
    /\ stream = "none"
    /\ buffer = Zeros(FFT_SIZE)
    /\ index = 0
    /\ spectrum = <<>>
    /\ cbPc = "idle"
    /\ lock = "none"
    /\ poisoned = FALSE
    /\ shared = NewAudioData
    /\ uiPc = "idle"
    /\ points = [waveform |-> <<>>, spectrum |-> <<>>]
    /\ pushed = 0
    /\ publishes = 0
    /\ stamp = [waveform |-> 0, spectrum |-> 0]
    /\ seen = [waveform |-> -1, spectrum |-> -1]
    /\ errorReported = FALSE
    /\ streamWindow = <<>>

\* ------------------------------------------------------------- main thread
\* A device lookup whose failure is not checked.
AfterDeviceLookup_Unchecked(dev) == "config"

\* host.default_input_device().expect("No input device")
AfterDeviceLookup(dev) == IF dev = "none" THEN "panicked" ELSE "config"

SelectDevice ==
    /\ mainPc = "start"
    /\ mainPc' = AfterDeviceLookup(device)
    /\ mainPanic' = IF device = "none" THEN "No input device" ELSE mainPanic
    /\ UNCHANGED <<sampleFormat, threadVars, cbVars, lock, poisoned, shared,
                   uiVars, envVars, histVars>>

\* device.default_input_config().unwrap(); config.sample_format()
QueryConfig ==
    /\ mainPc = "config"
    /\ IF configOk
       THEN /\ mainPc' = "spawn"
            /\ sampleFormat' = device
            /\ UNCHANGED mainPanic
       ELSE /\ mainPc' = "panicked"
            /\ mainPanic' = "DefaultStreamConfigError"
            /\ UNCHANGED sampleFormat
    /\ UNCHANGED <<threadVars, cbVars, lock, poisoned, shared, uiVars, envVars,
                   histVars>>

\* std::thread::spawn(move || ...); start_audio_stream returns.
SpawnThread ==
    /\ mainPc = "spawn"
    /\ mainPc' = "run_native"
    /\ threadPc' = "match"
    /\ UNCHANGED <<mainPanic, sampleFormat, threadPanic, typeParam, streamType,
                   stream, cbVars, lock, poisoned, shared, uiVars, envVars,
                   histVars>>

\* eframe::run_native(...): the window opens, or creation fails and main
\* returns the error.
RunNative(ok) ==
    /\ mainPc = "run_native"
    /\ mainPc' = IF ok THEN "ui" ELSE "exited"
    /\ UNCHANGED <<mainPanic, sampleFormat, threadVars, cbVars, lock, poisoned,
                   shared, uiVars, envVars, histVars>>

\* The window is closed: run_native returns and main returns.
CloseUi ==
    /\ mainPc = "ui"
    /\ uiPc = "idle"
    /\ mainPc' = "exited"
    /\ UNCHANGED <<mainPanic, sampleFormat, threadVars, cbVars, lock, poisoned,
                   shared, uiVars, envVars, histVars>>

\* ---------------------------------------------------------- capture thread
\* The type argument of the run_stream::<T> call of each match arm.
TypeArg(fmt) ==
    IF fmt = "F32" THEN "f32" ELSE IF fmt = "I16" THEN "i16" ELSE "u16"

\* match sample_format { F32 => .., I16 => .., U16 => .., _ => panic!(..) }
Dispatch ==
    /\ Alive
    /\ threadPc = "match"
    /\ IF sampleFormat \in {"F32", "I16", "U16"}
       THEN /\ threadPc' = "build"
            /\ typeParam' = TypeArg(sampleFormat)
            /\ UNCHANGED threadPanic
       ELSE /\ threadPc' = "panicked"
            /\ threadPanic' = "Unsupported sample format"
            /\ UNCHANGED typeParam
    /\ UNCHANGED <<streamType, stream, mainVars, cbVars, lock, poisoned, shared,
                   uiVars, envVars, histVars>>

\* The element type of the data callback, move |data: &[f32], _|, which is
\* the sample type build_input_stream asks the device for; T plays no part.
CallbackSampleType(t) == "f32"

\* let mut buffer ..; let mut index = 0; device.build_input_stream(..).unwrap()
BuildStream(ok) ==
    /\ Alive
    /\ threadPc = "build"
    /\ streamType' = CallbackSampleType(typeParam)
    /\ buffer' = Zeros(FFT_SIZE)
    /\ index' = 0
    /\ IF ok
       THEN /\ threadPc' = "play"
            /\ stream' = "built"
            /\ UNCHANGED threadPanic
       ELSE /\ threadPc' = "panicked"
            /\ threadPanic' = "BuildStreamError"
            /\ UNCHANGED stream
    /\ UNCHANGED <<typeParam, mainVars, spectrum, cbPc, lock,
                   poisoned, shared, uiVars, envVars, histVars>>

\* stream.play().unwrap(); std::thread::park()
Play(ok) ==
    /\ Alive
    /\ threadPc = "play"
    /\ IF ok
       THEN /\ threadPc' = "parked"
            /\ stream' = "playing"
            /\ UNCHANGED threadPanic
       ELSE /\ threadPc' = "panicked"
            /\ threadPanic' = "PlayStreamError"
            /\ stream' = "closed"
    /\ UNCHANGED <<typeParam, streamType, mainVars, cbVars, lock, poisoned,
                   shared, uiVars, envVars, histVars>>

\* park() returns without an unpark (it may wake spuriously): run_stream
\* returns, which drops the stream; the drop waits for a callback in flight,
\* so the step is taken between callbacks.
SpuriousUnpark ==
    /\ Alive
    /\ threadPc = "parked"
    /\ cbPc \in {"idle", "panicked"}
    /\ threadPc' = "exited"
    /\ stream' = "closed"
    /\ UNCHANGED <<threadPanic, typeParam, streamType, mainVars, cbVars, lock,
                   poisoned, shared, uiVars, envVars, histVars>>

\* move |err| eprintln!("Stream error: {:?}", err)
ErrorCallback ==
    /\ Alive
    /\ stream = "playing"
    /\ ~errorReported
    /\ errorReported' = TRUE
    /\ UNCHANGED <<mainVars, threadVars, cbVars, lock, poisoned, shared, uiVars,
                   envVars, pushed, publishes, stamp, streamWindow>>

\* The driver state of the design, read off the capture thread and stream.
DriverState ==
    IF threadPc = "parked" /\ stream = "playing" THEN "Streaming"
    ELSE IF threadPc = "exited" THEN "Stopped"
    ELSE IF threadPc = "panicked" \/ mainPc = "panicked" THEN "Failed"
    ELSE IF threadPc \in {"build", "play"} THEN "StreamConfigured"
    ELSE IF mainPc \in {"config"} THEN "DeviceSelected"
    ELSE IF threadPc = "match" \/ mainPc = "spawn" THEN "StreamConfigured"
    ELSE "Uninitialized"

\* ----------------------------------------------------------- data callback
\* The audio subsystem delivers a hardware buffer: the callback is entered.
\* The length of the buffer is revealed by the loop, which either finds a
\* next sample (PushSample) or the end of the slice (CallbackReturn); it is
\* any number of samples.
CallbackBegin ==
    /\ Alive
    /\ stream = "playing"
    /\ cbPc = "idle"
    /\ cbPc' = "loop"
    /\ UNCHANGED <<buffer, index, spectrum, mainVars, threadVars, lock, poisoned,
                   shared, uiVars, envVars, histVars>>

\* sample.to_f32().unwrap() on an f32 sample: ToPrimitive gives Some(self).
ToF32(sample) == sample

\* The completion test one sample early: index >= FFT_SIZE - 1.
WindowComplete_Early(idx) == idx >= FFT_SIZE - 1

\* The completion test off by one: index > FFT_SIZE.
WindowComplete_Strict(idx) == idx > FFT_SIZE

\* if index >= FFT_SIZE
WindowComplete(idx) == idx >= FFT_SIZE

\* A cursor that fills the buffer from its end.
Slot_Reversed(idx) == FFT_SIZE - idx

\* The position of buffer[idx] in the sequence that models the buffer.
Slot(idx) == idx + 1

\* for &sample in data { buffer[index] = ..; index += 1; if index >= FFT_SIZE ..
PushSample(sample) ==
    /\ Alive
    /\ cbPc = "loop"
    /\ pushed < MaxSamples
    /\ IF index >= Len(buffer)
       THEN /\ cbPc' = "panicked"
            /\ UNCHANGED <<buffer, index, pushed, streamWindow>>
       ELSE /\ buffer' = [buffer EXCEPT ![Slot(index)] = ToF32(sample)]
            /\ index' = index + 1
            /\ pushed' = pushed + 1
            /\ streamWindow' = IF pushed % FFT_SIZE = 0
                                THEN <<sample>>
                                ELSE Append(streamWindow, sample)
            /\ cbPc' = IF WindowComplete(index + 1) THEN "fft" ELSE "loop"
    /\ UNCHANGED <<spectrum, mainVars, threadVars, lock, poisoned, shared,
                   uiVars, envVars, publishes, stamp, errorReported>>

\* The hardware buffer is exhausted: the callback returns.
CallbackReturn ==
    /\ Alive
    /\ cbPc = "loop"
    /\ cbPc' = "idle"
    /\ UNCHANGED <<buffer, index, spectrum, mainVars, threadVars,
                   lock, poisoned, shared, uiVars, envVars, histVars>>

\* The position after the spectrum is computed: the lock is taken next.
AfterFft == "lock"

\* let mut input = ..; fft.process(&mut input); let mut spectrum = ..; for i ..
ComputeSpectrum ==
    /\ Alive
    /\ cbPc = "fft"
    /\ spectrum' = SpectrumOf(buffer)
    /\ cbPc' = AfterFft
    /\ UNCHANGED <<buffer, index, mainVars, threadVars, lock,
                   poisoned, shared, uiVars, envVars, histVars>>

\* A lock that excludes nobody.
CanLock_NoExclusion(holder) == TRUE

\* Mutex::lock(): the mutex can be taken when nobody holds it.
CanLock(holder) == holder = "none"

\* let mut data = shared_data.lock().unwrap();
PublishLock ==
    /\ Alive
    /\ cbPc = "lock"
    /\ CanLock(lock)
    /\ IF poisoned
       THEN /\ cbPc' = "panicked"
            /\ UNCHANGED lock
       ELSE /\ cbPc' = "copyWaveform"
            /\ lock' = "producer"
    /\ UNCHANGED <<buffer, index, spectrum, mainVars, threadVars,
                   poisoned, shared, uiVars, envVars, histVars>>

\* data.waveform.copy_from_slice(&buffer); panics on a length mismatch.
CopyWaveform ==
    /\ Alive
    /\ cbPc = "copyWaveform"
    /\ IF Len(shared.waveform) = Len(buffer)
       THEN /\ shared' = [shared EXCEPT !.waveform = buffer]
            /\ stamp' = [stamp EXCEPT !.waveform = publishes + 1]
            /\ cbPc' = "copySpectrum"
            /\ UNCHANGED <<lock, poisoned>>
       ELSE /\ cbPc' = "panicked"
            /\ lock' = "none"
            /\ poisoned' = TRUE
            /\ UNCHANGED <<shared, stamp>>
    /\ UNCHANGED <<buffer, index, spectrum, mainVars, threadVars,
                   uiVars, envVars, pushed, publishes, errorReported,
                   streamWindow>>

\* data.spectrum.copy_from_slice(&spectrum); panics on a length mismatch.
CopySpectrum ==
    /\ Alive
    /\ cbPc = "copySpectrum"
    /\ IF Len(shared.spectrum) = Len(spectrum)
       THEN /\ shared' = [shared EXCEPT !.spectrum = spectrum]
            /\ stamp' = [stamp EXCEPT !.spectrum = publishes + 1]
            /\ cbPc' = "reset"
            /\ UNCHANGED <<lock, poisoned>>
       ELSE /\ cbPc' = "panicked"
            /\ lock' = "none"
            /\ poisoned' = TRUE
            /\ UNCHANGED <<shared, stamp>>
    /\ UNCHANGED <<buffer, index, spectrum, mainVars, threadVars,
                   uiVars, envVars, pushed, publishes, errorReported,
                   streamWindow>>

\* A guard that outlives the if block: the producer keeps the mutex.
ProducerDrop_Leak(holder) == holder

\* The holder of the mutex after the producer's guard goes out of scope.
ProducerDrop(holder) == "none"

\* index = 0; } -- the guard is dropped at the end of the if block.
ResetIndex ==
    /\ Alive
    /\ cbPc = "reset"
    /\ index' = 0
    /\ lock' = ProducerDrop(lock)
    /\ publishes' = publishes + 1
    /\ cbPc' = "loop"
    /\ UNCHANGED <<buffer, spectrum, mainVars, threadVars, poisoned,
                   shared, uiVars, envVars, pushed, stamp, errorReported,
                   streamWindow>>

\* ------------------------------------------------------- AudioApp::update
\* eframe calls update for the next frame; update reaches the lock() call.
UpdateBegin ==
    /\ mainPc = "ui"
    /\ uiPc = "idle"
    /\ uiPc' = "lock"
    /\ UNCHANGED <<mainVars, threadVars, cbVars, lock, poisoned, shared, points,
                   seen, envVars, histVars>>

\* let data = self.shared_data.lock().unwrap();
UpdateLock ==
    /\ mainPc = "ui"
    /\ uiPc = "lock"
    /\ CanLock(lock)
    /\ IF poisoned
       THEN /\ mainPc' = "panicked"
            /\ mainPanic' = "PoisonError"
            /\ UNCHANGED <<lock, uiPc>>
       ELSE /\ lock' = "consumer"
            /\ uiPc' = "locked"
            /\ UNCHANGED <<mainPc, mainPanic>>
    /\ UNCHANGED <<sampleFormat, threadVars, cbVars, poisoned, shared, points,
                   seen, envVars, histVars>>

\* v.iter().enumerate().map(|(i, &y)| [i as f64, y as f64]).collect()
PlotPoints(v) == [i \in 1..Len(v) |-> <<i - 1, v[i]>>]

\* An iteration that empties the vector it reads, as drain(..) would.
IterRead_Drain(v) == Zeros(Len(v))

\* The vector after data.waveform.iter() / data.spectrum.iter() has gone over
\* it: iter() borrows immutably and leaves it as it was.
IterRead(v) == v

\* ui.heading(..); the waveform plot closure collects data.waveform.
CollectWaveform ==
    /\ mainPc = "ui"
    /\ uiPc = "locked"
    /\ points' = [points EXCEPT !.waveform = PlotPoints(shared.waveform)]
    /\ shared' = [shared EXCEPT !.waveform = IterRead(shared.waveform)]
    /\ seen' = [seen EXCEPT !.waveform = stamp.waveform]
    /\ uiPc' = "waveform"
    /\ UNCHANGED <<mainVars, threadVars, cbVars, lock, poisoned, envVars,
                   histVars>>

\* plot_ui.line(..) and the rest of Plot::show: the waveform plot is drawn.
DrawWaveform ==
    /\ mainPc = "ui"
    /\ uiPc = "waveform"
    /\ uiPc' = "waveformDrawn"
    /\ UNCHANGED <<mainVars, threadVars, cbVars, lock, poisoned, shared, points,
                   seen, envVars, histVars>>

\* ui.separator(); ui.heading(..); the fft plot closure collects data.spectrum.
CollectSpectrum ==
    /\ mainPc = "ui"
    /\ uiPc = "waveformDrawn"
    /\ points' = [points EXCEPT !.spectrum = PlotPoints(shared.spectrum)]
    /\ shared' = [shared EXCEPT !.spectrum = IterRead(shared.spectrum)]
    /\ seen' = [seen EXCEPT !.spectrum = stamp.spectrum]
    /\ uiPc' = "spectrum"
    /\ UNCHANGED <<mainVars, threadVars, cbVars, lock, poisoned, envVars,
                   histVars>>

\* plot_ui.line(..) and the rest of Plot::show: the spectrum plot is drawn.
DrawSpectrum ==
    /\ mainPc = "ui"
    /\ uiPc = "spectrum"
    /\ uiPc' = "spectrumDrawn"
    /\ UNCHANGED <<mainVars, threadVars, cbVars, lock, poisoned, shared, points,
                   seen, envVars, histVars>>

\* A guard that is never dropped: update keeps the mutex.
ConsumerDrop_Leak(holder) == holder

\* The holder of the mutex after update's guard goes out of scope.
ConsumerDrop(holder) == "none"

\* End of the CentralPanel closure: the guard `data` is dropped; then
\* ctx.request_repaint(), and update returns and its locals are gone.
UpdateEnd ==
    /\ mainPc = "ui"
    /\ uiPc = "spectrumDrawn"
    /\ lock' = ConsumerDrop(lock)
    /\ uiPc' = "idle"
    /\ points' = [waveform |-> <<>>, spectrum |-> <<>>]
    /\ seen' = [waveform |-> -1, spectrum |-> -1]
    /\ UNCHANGED <<mainVars, threadVars, cbVars, poisoned, shared, envVars,
                   histVars>>

\* ----------------------------------------------------------- specification
Next ==
    \/ SelectDevice
    \/ QueryConfig
    \/ SpawnThread
    \/ \E ok \in BOOLEAN : RunNative(ok)
    \/ CloseUi
    \/ Dispatch
    \/ \E ok \in BOOLEAN : BuildStream(ok)
    \/ \E ok \in BOOLEAN : Play(ok)
    \/ SpuriousUnpark
    \/ ErrorCallback
    \/ CallbackBegin
    \/ \E sample \in Samples : PushSample(sample)
    \/ CallbackReturn
    \/ ComputeSpectrum
    \/ PublishLock
    \/ CopyWaveform
    \/ CopySpectrum
    \/ ResetIndex
    \/ UpdateBegin
    \/ UpdateLock
    \/ CollectWaveform
    \/ DrawWaveform
    \/ CollectSpectrum
    \/ DrawSpectrum
    \/ UpdateEnd

Spec == Init /\ [][Next]_vars

\* The steps a thread takes while it holds the mutex: the producer's copy-in
\* and update's reads and drawing.  The mutex lets at most one of the two
\* threads be inside, so at most one of these steps is enabled at a time.
CriticalSection ==
    \/ CopyWaveform \/ CopySpectrum \/ ResetIndex
    \/ CollectWaveform \/ DrawWaveform \/ CollectSpectrum \/ DrawSpectrum
    \/ UpdateEnd

\* The start of a run on a machine whose input device reports f32 samples
\* and a default configuration.
FairInit == Init /\ device = "F32" /\ configOk

\* The runs from FairInit in which the threads are scheduled fairly: the
\* thread inside the critical section keeps running to its end, and a thread
\* blocked in lock() gets the mutex if it is free again and again.  The data
\* callback is the same for every supported encoding (CallbackSampleType), so
\* the runs of the other devices take the mutex in the same way.
FairSpec ==
    /\ FairInit
    /\ [][Next]_vars
    /\ SF_vars(PublishLock)
    /\ SF_vars(UpdateLock)
    /\ WF_vars(CriticalSection)

TypeOK ==
    /\ index \in 0..FFT_SIZE
    /\ lock \in {"none", "producer", "consumer"}
    /\ Len(buffer) = FFT_SIZE

\* ------------------------------------------------------------------ claims
\* The point vectors of a finished read: both fields have been collected.
ReadComplete == uiPc \in {"spectrum", "spectrumDrawn"}

\* C1: every (waveform, spectrum) pair one update reads comes from one single
\* publish, or is the initial pair: the two fields it read carry the same
\* publish number, and are the two fields of the store at that moment.
C1_AtomicPublish ==
    ReadComplete =>
        /\ seen.waveform = seen.spectrum
        /\ points.waveform = PlotPoints(shared.waveform)
        /\ points.spectrum = PlotPoints(shared.spectrum)

\* A read of the first published pair is complete while the producer waits at
\* the mutex with the next complete window.
C1_Witness == ReadComplete /\ seen.spectrum = 1 /\ cbPc = "lock"

\* C2: whenever the store is not inside a publish, the stored spectrum is the
\* spectrum the producer's spectrum step computes for the stored waveform,
\* the initial snapshot included.
C2_Consistency == lock # "producer" => shared.spectrum = SpectrumOf(shared.waveform)

\* A completion is in progress: the window is full and not yet published.
Completing == cbPc \in {"fft", "lock", "copyWaveform", "copySpectrum", "reset"}

\* C3: after k stored samples exactly k div N publishes have occurred and the
\* cursor is k mod N (0 right after each completion); while the completion of
\* a window is in progress the cursor is N and that publish is still to come.
C3_FrameBoundary ==
    /\ cbPc \in {"idle", "loop"} =>
          /\ publishes = pushed \div FFT_SIZE
          /\ index = pushed % FFT_SIZE
    /\ Completing =>
          /\ pushed % FFT_SIZE = 0
          /\ publishes = pushed \div FFT_SIZE - 1
          /\ index = FFT_SIZE

\* 2N samples have been stored, the second publish is done, the cursor is 0.
C3_Witness == pushed = 2 * FFT_SIZE /\ publishes = 2 /\ index = 0 /\ cbPc = "loop"

\* C4: the stored waveform always has N entries and the stored spectrum N/2,
\* and a read made before the first publish returns all zeros of these
\* lengths.
C4_InitialSnapshot ==
    /\ Len(shared.waveform) = FFT_SIZE
    /\ Len(shared.spectrum) = FFT_SIZE \div 2
    /\ (ReadComplete /\ publishes = 0) =>
          /\ points.waveform = PlotPoints(Zeros(FFT_SIZE))
          /\ points.spectrum = PlotPoints(Zeros(FFT_SIZE \div 2))

\* A read is complete while the accumulator holds a partly filled window with
\* a non-zero sample in it.
C4_Witness ==
    /\ ReadComplete
    /\ publishes = 0
    /\ index = FFT_SIZE - 1
    /\ buffer[1] = Scale

\* C5: once the error callback has reported a device error the driver is
\* Stopped.
C5_ErrorStops == errorReported => DriverState = "Stopped"

\* C6: without an input device, start_audio_stream panics with "No input
\* device" at the lookup: no capture thread is spawned, no stream is built and
\* the UI is never started.
C6_NoDevice ==
    device = "none" =>
        /\ threadPc = "none"
        /\ stream = "none"
        /\ mainPc \in {"start", "panicked"}
        /\ mainPc = "panicked" => mainPanic = "No input device"

\* The start-up has failed on the missing device.
C6_Witness == device = "none" /\ mainPc = "panicked"

\* C7: the UI never runs while the driver has failed to reach Streaming.
C7_NoHalfInit == ~(mainPc = "ui" /\ threadPc = "panicked")

\* C8: the stream is requested with the sample type of the encoding the
\* device reported.
C8_Dispatch == streamType # "" => streamType = TypeArg(sampleFormat)

\* C9: the producer holds the mutex only in the copy-in steps, with the
\* spectrum of the window already computed, and never while it is between
\* samples, computing the spectrum or outside the callback.
C9_ProducerLock ==
    /\ lock = "producer" =>
          /\ cbPc \in {"copyWaveform", "copySpectrum", "reset"}
          /\ spectrum = SpectrumOf(buffer)
    /\ cbPc \in {"idle", "loop", "fft", "lock"} => lock # "producer"

\* The producer has published a window and is back in its loop with the
\* mutex free, which update has taken in the meantime.
C9_Witness == cbPc = "loop" /\ publishes = 1 /\ index = 0 /\ lock = "consumer"

\* C10: update does not hold the mutex once it has drawn anything.
C10_ReaderLock == uiPc \in {"waveformDrawn", "spectrum", "spectrumDrawn"} => lock # "consumer"

\* C11: a published all-zero window carries an all-zero spectrum.
C11_Silence ==
    (stamp.waveform >= 1 /\ stamp.spectrum = stamp.waveform
        /\ shared.waveform = Zeros(FFT_SIZE))
    => shared.spectrum = Zeros(FFT_SIZE \div 2)

\* C12: while the process runs and no device error has been reported, a
\* Streaming driver stays Streaming.
C12_StaysStreaming ==
    [][(DriverState = "Streaming" /\ Alive /\ ~errorReported)
        => DriverState' = "Streaming"]_vars

\* C13: the store changes only in the producer's two copy-in steps, taken
\* with the mutex held by the producer; no step of update changes it.
C13_SoleWriter ==
    [][shared' # shared =>
        /\ lock = "producer"
        /\ cbPc \in {"copyWaveform", "copySpectrum"}
        /\ uiPc' = uiPc]_vars

\* update has read both fields of a published, non-zero window.
C13_Witness == ReadComplete /\ publishes >= 1 /\ shared.waveform # Zeros(FFT_SIZE)

\* C16: the callback never indexes the buffer out of range: whenever it is
\* about to store a sample or is between invocations the cursor is in
\* 0..N-1, and it is N only while a completion is in progress.
C16_CursorBound ==
    /\ cbPc # "panicked"
    /\ index \in 0..FFT_SIZE
    /\ cbPc \in {"idle", "loop"} => index \in 0..(FFT_SIZE - 1)
    /\ index = FFT_SIZE => Completing

\* Between two callbacks, after a wrap, the cursor is at its largest value.
C16_Witness == cbPc = "idle" /\ publishes >= 1 /\ index = FFT_SIZE - 1

\* C14: each publish stores exactly the next N samples of the delivered
\* stream, in order: the k-th waveform written is the full window the stream
\* has just completed, at stream position k*N, wherever the hardware buffers
\* were cut.
C14_WindowsInOrder ==
    [][stamp'.waveform # stamp.waveform =>
        /\ Len(streamWindow) = FFT_SIZE
        /\ shared'.waveform = streamWindow
        /\ stamp'.waveform * FFT_SIZE = pushed]_vars

\* The second window is published and its first and last samples differ.
C14_Witness ==
    /\ publishes = 2
    /\ shared.waveform = streamWindow
    /\ shared.waveform[1] # shared.waveform[FFT_SIZE]

\* C15: the publish number of the store never decreases, and what update
\* reads is the store's current window, which was complete by then; so the
\* windows successive reads see never go backwards.
C15_ReadsMonotone ==
    [][/\ stamp'.waveform >= stamp.waveform
       /\ seen'.waveform \notin {seen.waveform, -1} =>
             /\ lock = "consumer"
             /\ seen'.waveform = stamp.waveform
             /\ seen'.waveform * FFT_SIZE <= pushed]_vars

\* update has read the second window.
C15_Witness == uiPc = "waveform" /\ seen.waveform = 2

\* C17: while the process runs, a producer waiting at the mutex gets it, and
\* an update waiting at the mutex gets it.
C17_NoDeadlock ==
    /\ (cbPc = "lock") ~> (lock = "producer" \/ ~Alive)
    /\ (uiPc = "lock") ~> (lock = "consumer")

\* The producer waits at the mutex while update holds it.
C17_Witness == cbPc = "lock" /\ lock = "consumer"

====
